---- MODULE Spec2Model ----
(***************************************************************************)
(* StockSage paper-trading ledger (utils/paper_trading_manager.py,         *)
(* models/paper_trading.py).                                               *)
(*                                                                         *)
(* Numbers.  The ledger computes in Python floats.  Quantities, prices and *)
(* the balance are modelled as integers; average_price and unrealized_pnl, *)
(* which come out of a division, are exact rationals [n, d] in lowest      *)
(* terms.  Rounding of IEEE doubles is not modelled.                       *)
(***************************************************************************)
EXTENDS Integers, Sequences, FiniteSets, TLC

VARIABLES
    db,               \* committed rows: account balance, paper_positions, paper_orders
    sess,             \* the manager's SQLAlchemy session: loaded, possibly dirty, objects
    last,             \* the last call on the manager: arguments and outcome
    initial_balance,  \* the initial_balance the account was created with
    pc,               \* concurrent runs: each session's position in place_order
    frame,            \* concurrent runs: each session's locals in place_order
    df,               \* the caller's indicator table (a DataFrame, changed in place)
    signals,          \* what generate_signals returned to its caller
    portfolio         \* PortfolioManager's rows: positions and transactions

vars == <<db, sess, last, initial_balance, pc, frame, df, signals, portfolio>>

----------------------------------------------------------------------------
(* Bounds of the model *)

\* Orders placed in a run of each specification
MaxOrders == 2
MaxTrades == 3
MaxScenarioOrders == 3
MaxMarkedOrders == 2

\* create_paper_account's default initial_balance
DefaultBalance == 100000

Symbols == {"AAPL", "MSFT"}
Keys == {<<"AAPL", "stock">>, <<"MSFT", "stock">>}
Quantities == {0, 1, 2}
Prices == {-1, 1, 2}
InitialBalances == {3}

TradeSides == {"buy", "sell", "short"}
TradeQuantities == {1, 2}
TradePrices == {1, 2}
TradeBalances == {20}

ScenarioKeys == {<<"AAPL", "stock">>}
ScenarioQuantities == {10, 25}
ScenarioPrices == {100, 120, 130}

MarkedKeys == {<<"AAPL", "stock">>, <<"MSFT", "stock">>, <<"AAPL", "crypto">>}
MarkedSides == {"buy", "short"}
MarkedFills == {<<1, 1>>, <<2, 2>>}
MarkedBalances == {20}

\* Two sessions placing orders on one account
MaxConcurrentOrders == 2
Sessions == {1, 2}
ConcurrentKeys == {<<"AAPL", "stock">>}
ConcurrentSides == {"buy", "sell"}
ConcurrentQuantities == {1, 2}
ConcurrentPrices == {1, 2}
QuotePrices == {1, 3}

----------------------------------------------------------------------------
(* Enumerations of models/paper_trading.py *)

AssetType == {"stock", "crypto", "option", "future"}
OrderSide == {"buy", "sell", "short"}

----------------------------------------------------------------------------
(* Exact arithmetic standing for the float arithmetic of the ledger *)

Abs(x) == IF x < 0 THEN -x ELSE x

RECURSIVE GCD(_, _)
GCD(a, b) == IF b = 0 THEN a ELSE GCD(b, a % b)

\* n / d in lowest terms with a positive denominator (d # 0)
Rat(n, d) ==
    LET g == GCD(Abs(n), Abs(d))
        s == IF d < 0 THEN -1 ELSE 1
    IN  [n |-> (s * n) \div g, d |-> (s * d) \div g]

RatInt(i) == [n |-> i, d |-> 1]
RatAdd(x, y) == Rat(x.n * y.d + y.n * x.d, x.d * y.d)
RatSub(x, y) == Rat(x.n * y.d - y.n * x.d, x.d * y.d)
RatMulInt(x, i) == Rat(x.n * i, x.d)
RatDivInt(x, i) == Rat(x.n, x.d * i)
RatNeg(x) == [n |-> -x.n, d |-> x.d]

----------------------------------------------------------------------------
(* Rows *)

PaperPosition_NeverShort(id, symbol, asset_type, quantity, price, order_side) ==
    [id |-> id, symbol |-> symbol, asset_type |-> asset_type,
     quantity |-> quantity, average_price |-> RatInt(price),
     current_price |-> price, unrealized_pnl |-> RatInt(0),
     is_short |-> FALSE]

PaperPosition(id, symbol, asset_type, quantity, price, order_side) ==
    [id |-> id, symbol |-> symbol, asset_type |-> asset_type,
     quantity |-> quantity, average_price |-> RatInt(price),
     current_price |-> price, unrealized_pnl |-> RatInt(0),
     is_short |-> (order_side = "short")]

PaperOrder_Pending(id, symbol, asset_type, order_side, quantity, price) ==
    [id |-> id, symbol |-> symbol, asset_type |-> asset_type,
     order_type |-> "market", order_side |-> order_side,
     quantity |-> quantity, price |-> price,
     status |-> "pending", filled_at |-> FALSE]

PaperOrder(id, symbol, asset_type, order_side, quantity, price) ==
    [id |-> id, symbol |-> symbol, asset_type |-> asset_type,
     order_type |-> "market", order_side |-> order_side,
     quantity |-> quantity, price |-> price,
     status |-> "filled", filled_at |-> TRUE]

\* Index of the first row of positions at (symbol, asset_type); 0 when there is none
FirstPosition_NeverFound(positions, symbol, asset_type) == 0

FirstPosition(positions, symbol, asset_type) ==
    LET hits == {i \in 1..Len(positions) :
                    /\ positions[i].symbol = symbol
                    /\ positions[i].asset_type = asset_type}
    IN  IF hits = {} THEN 0 ELSE CHOOSE i \in hits : \A j \in hits : i <= j

RemoveAt(s, i) == [j \in 1..(Len(s) - 1) |-> IF j < i THEN s[j] ELSE s[j + 1]]

----------------------------------------------------------------------------
(* PaperTradingManager._update_position *)

\* Mutant of the averaging: the plain mean of the old average and the fill price
BuyInto_MeanOfPrices(position, quantity, price) ==
    [position EXCEPT !.average_price =
                         RatDivInt(RatAdd(position.average_price, RatInt(price)), 2),
                     !.quantity = position.quantity + quantity]

\* The existing position after a BUY of quantity at price (new_quantity # 0)
BuyInto(position, quantity, price) ==
    LET new_quantity == position.quantity + quantity
        new_cost == RatAdd(RatMulInt(position.average_price, position.quantity),
                           RatInt(price * quantity))
    IN  [position EXCEPT !.average_price = RatDivInt(new_cost, new_quantity),
                         !.quantity = new_quantity]

\* Mutants of the depletion: the row is kept whatever is left of it; a row
\* is removed only when less than nothing is left of it
SellFrom_KeepsDepleted(positions, i, quantity) ==
    [positions EXCEPT ![i].quantity = positions[i].quantity - quantity]

SellFrom_KeepsEmptied(positions, i, quantity) ==
    IF positions[i].quantity - quantity < 0
    THEN RemoveAt(positions, i)
    ELSE [positions EXCEPT ![i].quantity = positions[i].quantity - quantity]

SellFrom_KeepsOversold(positions, i, quantity) ==
    IF positions[i].quantity - quantity = 0
    THEN RemoveAt(positions, i)
    ELSE [positions EXCEPT ![i].quantity = positions[i].quantity - quantity]

\* The rows after the SELL of quantity from the position at index i
SellFrom(positions, i, quantity) ==
    LET remaining == positions[i].quantity - quantity
    IN  IF remaining <= 0
        THEN RemoveAt(positions, i)
        ELSE [positions EXCEPT ![i].quantity = remaining]

\* error: the division by a zero new_quantity raised before anything was assigned
_update_position(positions, next_id, symbol, quantity, price, order_side, asset_type) ==
    LET i == FirstPosition(positions, symbol, asset_type)
        same == [positions |-> positions, next_id |-> next_id, error |-> FALSE]
    IN  IF i # 0
        THEN IF order_side = "buy"
             THEN IF positions[i].quantity + quantity = 0
                  THEN [same EXCEPT !.error = TRUE]
                  ELSE [same EXCEPT !.positions =
                            [positions EXCEPT ![i] = BuyInto(positions[i], quantity, price)]]
             ELSE IF order_side = "sell"
                  THEN [same EXCEPT !.positions = SellFrom(positions, i, quantity)]
                  ELSE same
        ELSE [positions |-> Append(positions,
                               PaperPosition(next_id, symbol, asset_type,
                                             quantity, price, order_side)),
              next_id |-> next_id + 1,
              error |-> FALSE]

----------------------------------------------------------------------------
(* PaperTradingManager.place_order, run to completion in one session *)

\* Mutants of the funds check: SHORT left unchecked; no check at all
SufficientFunds_BuyOnly(order_side, order_cost, account_balance) ==
    ~(order_side = "buy" /\ order_cost > account_balance)

SufficientFunds_Unchecked(order_side, order_cost, account_balance) == TRUE

\* Mutant of the balance update: a SELL is not credited
NewBalance_SellNotCredited(balance, account_balance, order_side, order_cost) ==
    IF order_side = "buy" THEN account_balance - order_cost ELSE balance

NewBalance_ShortDebited(balance, account_balance, order_side, order_cost) ==
    IF order_side \in {"buy", "short"} THEN account_balance - order_cost
    ELSE IF order_side = "sell" THEN account_balance + order_cost
    ELSE balance

SufficientFunds(order_side, order_cost, account_balance) ==
    ~(order_side \in {"buy", "short"} /\ order_cost > account_balance)

NewBalance(balance, account_balance, order_side, order_cost) ==
    IF order_side = "buy" THEN account_balance - order_cost
    ELSE IF order_side = "sell" THEN account_balance + order_cost
    ELSE balance

place_order(s, d, symbol, order_side, quantity, price, asset_type) ==
    LET order_cost == quantity * price
        account_balance == s.balance
        balance == NewBalance(s.balance, account_balance, order_side, order_cost)
        up == _update_position(s.positions, d.next_id, symbol, quantity, price,
                               order_side, asset_type)
        order == PaperOrder(Len(d.orders) + 1, symbol, asset_type, order_side,
                            quantity, price)
    IN  IF ~SufficientFunds(order_side, order_cost, account_balance)
        THEN [sess |-> s, db |-> d, outcome |-> "ValueError: Insufficient funds for order"]
        ELSE IF up.error
        THEN [sess |-> [s EXCEPT !.balance = balance], db |-> d,
              outcome |-> "ZeroDivisionError"]
        ELSE [sess |-> [balance |-> balance, positions |-> up.positions],
              db |-> [balance |-> balance, positions |-> up.positions,
                      orders |-> Append(d.orders, order), next_id |-> up.next_id],
              outcome |-> "filled"]

----------------------------------------------------------------------------
(* PaperTradingManager.update_positions_value *)

\* What ticker.history(period='1d')['Close'].iloc[-1] gives: a close, or it raises
Lookups == {[ok |-> TRUE, close |-> p] : p \in QuotePrices} \cup {[ok |-> FALSE, close |-> 0]}

NoQuote == [s \in Symbols |-> [ok |-> FALSE, close |-> 0]]

\* Mutant of the mark-to-market: the sign of a short position's P&L is not flipped
MarkToMarket_ShortAsLong(position, current_price) ==
    [position EXCEPT !.current_price = current_price,
                     !.unrealized_pnl =
                         RatMulInt(RatSub(RatInt(current_price), position.average_price),
                                   position.quantity)]

MarkToMarket(position, current_price) ==
    LET pnl == RatMulInt(RatSub(RatInt(current_price), position.average_price),
                         position.quantity)
    IN  [position EXCEPT !.current_price = current_price,
                         !.unrealized_pnl = IF position.is_short THEN RatNeg(pnl) ELSE pnl]

\* The loop over positions from index i on; quote[s] is the lookup of symbol s
RECURSIVE MarkFrom(_, _, _)
MarkFrom(positions, i, quote) ==
    IF i > Len(positions)
    THEN [positions |-> positions, error |-> FALSE]
    ELSE IF positions[i].asset_type # "stock"
    THEN MarkFrom(positions, i + 1, quote)
    ELSE IF ~quote[positions[i].symbol].ok
    THEN [positions |-> positions, error |-> TRUE]
    ELSE MarkFrom([positions EXCEPT
                      ![i] = MarkToMarket(positions[i], quote[positions[i].symbol].close)],
                  i + 1, quote)

update_positions_value(s, d, quote) ==
    LET r == MarkFrom(s.positions, 1, quote)
    IN  IF r.error
        THEN [sess |-> [s EXCEPT !.positions = r.positions], db |-> d,
              outcome |-> "IndexError"]
        ELSE [sess |-> [s EXCEPT !.positions = r.positions],
              db |-> [d EXCEPT !.balance = s.balance, !.positions = r.positions],
              outcome |-> "done"]

----------------------------------------------------------------------------
(* Calls *)

Call(op, symbol, asset_type, order_side, quantity, price, quote, outcome) ==
    [op |-> op, symbol |-> symbol, asset_type |-> asset_type, order_side |-> order_side,
     quantity |-> quantity, price |-> price, quote |-> quote, outcome |-> outcome]

View(d) == [balance |-> d.balance, positions |-> d.positions]

create_paper_account(balance) ==
    [balance |-> balance, positions |-> <<>>, orders |-> <<>>, next_id |-> 1]

\* The locals of a place_order call; position is <<>> or the one row the query gave
Locals(symbol, asset_type, order_side, quantity, price, account_balance, balance, position) ==
    [symbol |-> symbol, asset_type |-> asset_type, order_side |-> order_side,
     quantity |-> quantity, price |-> price, account_balance |-> account_balance,
     balance |-> balance, position |-> position]

NoLocals == Locals("", "", "", 0, 0, 0, 0, <<>>)

Idle == [s \in Sessions |-> "idle"]
NoFrame == [s \in Sessions |-> NoLocals]

\* Outside the ledger: no table fetched, nothing in the portfolio tables
NoTable == [columns |-> {}, rows |-> <<>>]
NoRows == [positions |-> <<>>, transactions |-> <<>>, next_id |-> 1]

InitLedger(balances) ==
    /\ initial_balance \in balances
    /\ db = create_paper_account(initial_balance)
    /\ sess = View(db)
    /\ last = Call("create_paper_account", "", "", "", 0, 0, NoQuote, "done")
    /\ pc = Idle
    /\ frame = NoFrame

InitWith(balances) ==
    /\ InitLedger(balances)
    /\ df = NoTable
    /\ signals = NoTable
    /\ portfolio = NoRows

\* One call of place_order in the manager's session
PlaceOrderIn(max, keys, sides, quantities, prices) ==
    \E key \in keys, order_side \in sides, quantity \in quantities, price \in prices :
        /\ Len(db.orders) < max
        /\ LET r == place_order(sess, db, key[1], order_side, quantity, price, key[2])
           IN  /\ sess' = r.sess
               /\ db' = r.db
               /\ last' = Call("place_order", key[1], key[2], order_side, quantity,
                               price, NoQuote, r.outcome)
        /\ UNCHANGED <<initial_balance, df, signals, portfolio, pc, frame>>

\* One call of update_positions_value in the manager's session
UpdatePositionsValue ==
    \E quote \in [Symbols -> Lookups] :
        /\ LET r == update_positions_value(sess, db, quote)
           IN  /\ sess' = r.sess
               /\ db' = r.db
               /\ last' = Call("update_positions_value", "", "", "", 0, 0, quote,
                               r.outcome)
        /\ UNCHANGED <<initial_balance, df, signals, portfolio, pc, frame>>

\* A rerun of the page opens a fresh session on the committed rows
NewSession ==
    /\ sess' = View(db)
    /\ last' = Call("get_db", "", "", "", 0, 0, NoQuote, "done")
    /\ UNCHANGED <<db, initial_balance, df, signals, portfolio, pc, frame>>

----------------------------------------------------------------------------
(* The ledger under any orders, valid or not *)

Init == InitWith(InitialBalances)
PlaceOrder == PlaceOrderIn(MaxOrders, Keys, OrderSide, Quantities, Prices)
Next == PlaceOrder
Spec == Init /\ [][Next]_vars

(* The ledger under longer runs of valid BUY and SELL orders *)

InitTrades == InitWith(TradeBalances)
Trade == PlaceOrderIn(MaxTrades, Keys, TradeSides, TradeQuantities, TradePrices)
NextTrades == Trade
SpecTrades == InitTrades /\ [][NextTrades]_vars

(* The ledger on the quantities and prices of the AAPL scenario *)

InitScenario == InitWith({DefaultBalance})
ScenarioOrder ==
    PlaceOrderIn(MaxScenarioOrders, ScenarioKeys, TradeSides, ScenarioQuantities,
                 ScenarioPrices)
NextScenario == ScenarioOrder
SpecScenario == InitScenario /\ [][NextScenario]_vars

(* Orders, mark-to-market and page reruns *)

InitMarked == InitWith(MarkedBalances)
MarkedOrder ==
    \E fill \in MarkedFills :
        PlaceOrderIn(MaxMarkedOrders, MarkedKeys, MarkedSides, {fill[1]}, {fill[2]})
NextMarked == MarkedOrder \/ UpdatePositionsValue \/ NewSession
SpecMarked == InitMarked /\ [][NextMarked]_vars

----------------------------------------------------------------------------
(* place_order called from two sessions on the same account.  Each session    *)
(* has its own objects; a query reads the committed rows and a commit flushes *)
(* what the session changed, in one transaction.                              *)

Returned(s) ==
    /\ pc' = [pc EXCEPT ![s] = "idle"]
    /\ frame' = [frame EXCEPT ![s] = NoLocals]

\* Lines 33-63: the account is queried, the funds are checked against the balance
\* read and the new balance is assigned to the session's account object
ReadAccount(s) ==
    \E key \in ConcurrentKeys, order_side \in ConcurrentSides,
       quantity \in ConcurrentQuantities, price \in ConcurrentPrices :
        /\ pc[s] = "idle"
        /\ Len(db.orders) + Cardinality({x \in Sessions : pc[x] # "idle"})
               < MaxConcurrentOrders
        /\ LET order_cost == quantity * price
               account_balance == db.balance
           IN  IF ~SufficientFunds(order_side, order_cost, account_balance)
               THEN UNCHANGED <<pc, frame>>
               ELSE /\ pc' = [pc EXCEPT ![s] = "query_position"]
                    /\ frame' = [frame EXCEPT ![s] =
                           Locals(key[1], key[2], order_side, quantity, price,
                                  account_balance,
                                  NewBalance(account_balance, account_balance,
                                             order_side, order_cost),
                                  <<>>)]
        /\ UNCHANGED <<db, sess, last, initial_balance, df, signals, portfolio>>

\* Lines 80-84: the position is queried
QueryPosition(s) ==
    /\ pc[s] = "query_position"
    /\ LET f == frame[s]
           i == FirstPosition(db.positions, f.symbol, f.asset_type)
       IN  /\ pc' = [pc EXCEPT ![s] = "commit_position"]
           /\ frame' = [frame EXCEPT ![s].position =
                            IF i = 0 THEN <<>> ELSE <<db.positions[i]>>]
    /\ UNCHANGED <<db, sess, last, initial_balance, df, signals, portfolio>>

RowsWithId(positions, id) == {i \in 1..Len(positions) : positions[i].id = id}

\* The flush of the position the session holds: an INSERT of a new row, an UPDATE
\* of the changed columns or a DELETE by id. stale: the UPDATE matched no row.
FlushPosition(positions, old, new) ==
    LET hit == IF old = <<>> THEN {} ELSE RowsWithId(positions, old[1].id)
        i == CHOOSE i \in hit : TRUE
    IN  IF old = <<>>
        THEN [positions |-> positions \o new, stale |-> FALSE]
        ELSE IF new = <<>>
        THEN [positions |-> IF hit = {} THEN positions ELSE RemoveAt(positions, i),
              stale |-> FALSE]
        ELSE IF new = old
        THEN [positions |-> positions, stale |-> FALSE]
        ELSE IF hit = {}
        THEN [positions |-> positions, stale |-> TRUE]
        ELSE [positions |->
                  [positions EXCEPT
                      ![i].quantity =
                          IF new[1].quantity # old[1].quantity
                          THEN new[1].quantity ELSE @,
                      ![i].average_price =
                          IF new[1].average_price # old[1].average_price
                          THEN new[1].average_price ELSE @],
              stale |-> FALSE]

\* Lines 86-110: the position is updated from the row that was read, and the
\* commit flushes the account's balance and the position
CommitPosition(s) ==
    /\ pc[s] = "commit_position"
    /\ LET f == frame[s]
           up == _update_position(f.position, db.next_id, f.symbol, f.quantity,
                                  f.price, f.order_side, f.asset_type)
           flushed == FlushPosition(db.positions, f.position, up.positions)
       IN  IF up.error \/ flushed.stale
           THEN Returned(s) /\ UNCHANGED db
           ELSE /\ db' = [db EXCEPT
                             !.balance = IF f.balance # f.account_balance
                                         THEN f.balance ELSE @,
                             !.positions = flushed.positions,
                             !.next_id = up.next_id]
                /\ pc' = [pc EXCEPT ![s] = "commit_order"]
                /\ UNCHANGED frame
    /\ UNCHANGED <<sess, last, initial_balance, df, signals, portfolio>>

\* Lines 68-71: the order is added and committed
CommitOrder(s) ==
    /\ pc[s] = "commit_order"
    /\ LET f == frame[s]
       IN  db' = [db EXCEPT !.orders =
                      Append(@, PaperOrder(Len(@) + 1, f.symbol, f.asset_type,
                                           f.order_side, f.quantity, f.price))]
    /\ Returned(s)
    /\ UNCHANGED <<sess, last, initial_balance, df, signals, portfolio>>

InitConcurrent == InitWith(InitialBalances)
NextConcurrent ==
    \E s \in Sessions :
        ReadAccount(s) \/ QueryPosition(s) \/ CommitPosition(s) \/ CommitOrder(s)
SpecConcurrent == InitConcurrent /\ [][NextConcurrent]_vars

----------------------------------------------------------------------------
(* Properties *)

InsufficientFunds == "ValueError: Insufficient funds for order"

\* Sum of quantity x price over the orders of one side
RECURSIVE Volume(_, _)
Volume(orders, order_side) ==
    IF orders = <<>> THEN 0
    ELSE Volume(Tail(orders), order_side)
         + (IF Head(orders).order_side = order_side
            THEN Head(orders).quantity * Head(orders).price ELSE 0)

Sides(orders) == {orders[i].order_side : i \in 1..Len(orders)}

\* Every order of the log has quantity > 0 and price >= 0
ValidOrders(orders) ==
    \A i \in 1..Len(orders) : orders[i].quantity > 0 /\ orders[i].price >= 0

\* C1: a place_order with side BUY or SHORT whose cost quantity x price exceeds the
\* balance raises the insufficient-funds error and leaves the balance, every
\* position and the order log as they were.
C1_InsufficientFundsAtomic ==
    [][(/\ last'.op = "place_order"
        /\ last'.order_side \in {"buy", "short"}
        /\ last'.quantity * last'.price > sess.balance)
       => (last'.outcome = InsufficientFunds /\ db' = db /\ sess' = sess)]_vars

\* An order was rejected for insufficient funds on an account that holds a position
C1_Witness ==
    /\ last.op = "place_order"
    /\ last.outcome = InsufficientFunds
    /\ Len(db.orders) > 0
    /\ Len(db.positions) > 0

\* C3: on an account created with a balance >= 0, after place_order calls with
\* quantity > 0 and price >= 0 the balance is not negative.
C3_BalanceNeverNegative ==
    (initial_balance >= 0 /\ ValidOrders(db.orders))
        => (db.balance >= 0 /\ sess.balance >= 0)

\* Valid BUY orders were filled and spent the whole balance
C3_Witness ==
    /\ ValidOrders(db.orders)
    /\ Len(db.orders) = 2
    /\ Sides(db.orders) = {"buy"}
    /\ db.balance = 0

\* C4: over a sequence of place_order calls without SHORT orders the balance is
\* the initial balance minus the cost of the filled BUYs plus the proceeds of the
\* filled SELLs.
C4_BalanceConservation ==
    ("short" \notin Sides(db.orders))
        => db.balance = initial_balance - Volume(db.orders, "buy")
                                        + Volume(db.orders, "sell")

\* A BUY and a SELL were filled, both at a cost that is not zero
C4_Witness ==
    /\ Len(db.orders) = 2
    /\ Sides(db.orders) = {"buy", "sell"}
    /\ Volume(db.orders, "buy") > 0
    /\ Volume(db.orders, "sell") > 0
    /\ db.balance # initial_balance

\* The orders of the log at one key, and their total quantity
OrdersAt(orders, key) ==
    SelectSeq(orders, LAMBDA o : o.symbol = key[1] /\ o.asset_type = key[2])

RECURSIVE TotalQuantity(_)
TotalQuantity(orders) ==
    IF orders = <<>> THEN 0 ELSE Head(orders).quantity + TotalQuantity(Tail(orders))

\* The rows of positions at one key
PositionsAt(positions, key) ==
    SelectSeq(positions, LAMBDA q : q.symbol = key[1] /\ q.asset_type = key[2])

\* C5: after BUY fills alone at a key, starting from no position, the position's
\* quantity is the sum of the fills' quantities and its average_price is
\* sum(quantity x price) / sum(quantity); both are sums over the fills, so every
\* order of the same fills gives the same position.
C5_WeightedAverage ==
    \A key \in Keys :
        LET fills == OrdersAt(db.orders, key)
            held == PositionsAt(db.positions, key)
        IN  (fills # <<>> /\ Sides(fills) = {"buy"})
                => /\ Len(held) = 1
                   /\ held[1].quantity = TotalQuantity(fills)
                   /\ held[1].average_price
                        = Rat(Volume(fills, "buy"), TotalQuantity(fills))

\* Three BUY fills at one key, at two prices, left an average that is no whole number
C5_Witness ==
    \E key \in Keys :
        LET fills == OrdersAt(db.orders, key)
            held == PositionsAt(db.positions, key)
        IN  /\ Len(fills) = 3
            /\ Sides(fills) = {"buy"}
            /\ fills[1].price # fills[2].price
            /\ Len(held) = 1
            /\ held[1].average_price.d # 1

\* C6: a SELL of at least the quantity held at a key is filled and leaves no
\* position at that key; a BUY filled at a key without a position creates one
\* whose average_price is that BUY's price.
C6_OversellDeletes ==
    [][LET key == <<last'.symbol, last'.asset_type>>
           held == PositionsAt(sess.positions, key)
       IN  /\ (/\ last'.op = "place_order"
               /\ last'.order_side = "sell"
               /\ held # <<>>
               /\ last'.quantity >= held[1].quantity)
              => /\ last'.outcome = "filled"
                 /\ PositionsAt(db'.positions, key) = <<>>
                 /\ PositionsAt(sess'.positions, key) = <<>>
           /\ (/\ last'.op = "place_order"
               /\ last'.order_side = "buy"
               /\ last'.outcome = "filled"
               /\ held = <<>>)
              => /\ Len(PositionsAt(db'.positions, key)) = 1
                 /\ PositionsAt(db'.positions, key)[1].average_price
                      = RatInt(last'.price)
                 /\ PositionsAt(db'.positions, key)[1].quantity = last'.quantity]_vars

\* A BUY, a SELL of more than was held and a BUY at another price, all at one key
C6_Witness ==
    \E key \in Keys :
        LET fills == OrdersAt(db.orders, key)
            held == PositionsAt(db.positions, key)
        IN  /\ Len(fills) = 3
            /\ <<fills[1].order_side, fills[2].order_side, fills[3].order_side>>
                 = <<"buy", "sell", "buy">>
            /\ fills[2].quantity > fills[1].quantity
            /\ fills[3].price # fills[1].price
            /\ Len(held) = 1
            /\ held[1].average_price = RatInt(fills[3].price)

\* The orders of the AAPL scenario
ScenarioLog ==
    <<PaperOrder(1, "AAPL", "stock", "buy", 10, 100),
      PaperOrder(2, "AAPL", "stock", "buy", 10, 120),
      PaperOrder(3, "AAPL", "stock", "sell", 25, 130)>>

ScenarioHolds(quantity, average) ==
    /\ Len(db.positions) = 1
    /\ db.positions[1].symbol = "AAPL"
    /\ db.positions[1].quantity = quantity
    /\ db.positions[1].average_price = RatInt(average)

ScenarioUpTo(final_balance) ==
    /\ db.orders = SubSeq(ScenarioLog, 1, 1)
        => (db.balance = 99000 /\ ScenarioHolds(10, 100))
    /\ db.orders = SubSeq(ScenarioLog, 1, 2) => ScenarioHolds(20, 110)
    /\ db.orders = ScenarioLog
        => (db.positions = <<>> /\ db.balance = final_balance)

\* C7 as stated: from balance 100000, BUY 10 AAPL at 100 gives balance 99000
\* and {quantity 10, average 100}; BUY 10 at 120 gives {20, 110}; SELL 25 at 130
\* deletes the position and leaves balance 102250.
C7_Scenario_AsStated == ScenarioUpTo(102250)

\* C7 amended: the same, and the balance left is 101050, the second BUY
\* having been debited too (100000 - 1000 - 1200 + 3250).
C7_Scenario == ScenarioUpTo(101050)

\* The three orders of the scenario were filled
C7_Witness == db.orders = ScenarioLog /\ last.outcome = "filled"

\* C8 as stated: a place_order with a quantity or a price that is not positive
\* is rejected and returns no order.
C8_InvalidOrderRejected ==
    (last.op = "place_order" /\ (last.quantity <= 0 \/ last.price <= 0))
        => last.outcome # "filled"

\* The stock position is marked at the close: current_price is the close and
\* unrealized_pnl is (current_price - average_price) x quantity, negated when short
MarkedAt(position, close) ==
    LET avg == position.average_price
        pnl == Rat((close * avg.d - avg.n) * position.quantity, avg.d)
    IN  /\ position.current_price = close
        /\ position.unrealized_pnl = IF position.is_short THEN RatNeg(pnl) ELSE pnl

\* C9 as stated: when the lookup fails for the symbol of a position during
\* update_positions_value the failure is raised, that position keeps its
\* current_price and unrealized_pnl, and every other stock position is marked at
\* its latest close, before or after the failing one in the list.
C9_PartialMarkToMarket ==
    [][(/\ last'.op = "update_positions_value"
        /\ \E i \in 1..Len(sess.positions) :
               /\ sess.positions[i].asset_type = "stock"
               /\ ~last'.quote[sess.positions[i].symbol].ok)
       => /\ last'.outcome = "IndexError"
          /\ Len(sess'.positions) = Len(sess.positions)
          /\ \A i \in 1..Len(sess.positions) :
                 LET lookup == last'.quote[sess.positions[i].symbol]
                 IN  sess.positions[i].asset_type = "stock"
                         => IF lookup.ok
                            THEN MarkedAt(sess'.positions[i], lookup.close)
                            ELSE sess'.positions[i] = sess.positions[i]]_vars

\* C10: after update_positions_value returns, every stock position has
\* current_price equal to the latest close of its symbol and unrealized_pnl equal
\* to (current_price - average_price) x quantity, negated when is_short.
C10_MarkToMarket ==
    (last.op = "update_positions_value" /\ last.outcome = "done")
        => \A i \in 1..Len(db.positions) :
               db.positions[i].asset_type = "stock"
                   => /\ MarkedAt(db.positions[i], last.quote[db.positions[i].symbol].close)
                      /\ sess.positions[i] = db.positions[i]

\* update_positions_value returned on an account with a short stock position,
\* marked at a loss, and a crypto position it left alone
C10_Witness ==
    /\ last.op = "update_positions_value"
    /\ last.outcome = "done"
    /\ \E i, k \in 1..Len(db.positions) :
           /\ db.positions[i].asset_type = "stock"
           /\ db.positions[k].asset_type = "crypto"
           /\ db.positions[i].is_short
           /\ db.positions[i].unrealized_pnl.n < 0
           /\ db.positions[k].current_price # last.quote[db.positions[k].symbol].close

\* C2 as stated: place_order calls running concurrently on one account behave
\* as if serialized: once they have returned, the balance is the initial balance
\* minus the cost of every filled BUY (plus the proceeds of every filled SELL)
\* and is not negative.
C2_Serialized ==
    (\A s \in Sessions : pc[s] = "idle")
        => /\ db.balance = initial_balance - Volume(db.orders, "buy")
                                           + Volume(db.orders, "sell")
           /\ db.balance >= 0

----------------------------------------------------------------------------
(* The ledger, order by order *)

\* C11: a filled SHORT leaves the balance as it was; a filled BUY takes
\* quantity x price from it and a filled SELL adds quantity x price to it (a
\* SHORT passes the same funds check as a BUY, and is still not debited).
C11_ShortNotDebited ==
    [][(last'.op = "place_order" /\ last'.outcome = "filled")
          => /\ last'.order_side = "short" => db'.balance = db.balance
             /\ last'.order_side = "buy"
                   => db'.balance = db.balance - last'.quantity * last'.price
             /\ last'.order_side = "sell"
                   => db'.balance = db.balance + last'.quantity * last'.price
             /\ sess'.balance = db'.balance]_vars

\* A SHORT that cost something was filled, after a BUY that was debited
C11_Witness ==
    /\ last.op = "place_order"
    /\ last.outcome = "filled"
    /\ last.order_side = "short"
    /\ last.quantity * last.price > 0
    /\ Len(db.orders) = 2
    /\ db.orders[1].order_side = "buy"
    /\ db.balance = initial_balance - db.orders[1].quantity * db.orders[1].price
    /\ db.balance < initial_balance

\* C12: a BUY or SHORT filled at a key that has no position adds exactly one
\* position at that key: its quantity is the order's, its average_price and
\* current_price are the order's price, its unrealized_pnl is 0, and is_short
\* is true exactly when the side is SHORT; the other positions stay as they were.
C12_PositionCreated ==
    [][LET key == <<last'.symbol, last'.asset_type>>
       IN  (/\ last'.op = "place_order"
            /\ last'.outcome = "filled"
            /\ last'.order_side \in {"buy", "short"}
            /\ PositionsAt(db.positions, key) = <<>>)
              => /\ Len(db'.positions) = Len(db.positions) + 1
                 /\ SubSeq(db'.positions, 1, Len(db.positions)) = db.positions
                 /\ Len(PositionsAt(db'.positions, key)) = 1
                 /\ LET position == PositionsAt(db'.positions, key)[1]
                    IN  /\ position.quantity = last'.quantity
                        /\ position.average_price = RatInt(last'.price)
                        /\ position.current_price = last'.price
                        /\ position.unrealized_pnl = RatInt(0)
                        /\ position.is_short = (last'.order_side = "short")
                 /\ sess'.positions = db'.positions]_vars

\* A SHORT was filled at a key the log had not seen, next to a position that a
\* BUY had opened at the other key
C12_Witness ==
    /\ last.op = "place_order"
    /\ last.outcome = "filled"
    /\ last.order_side = "short"
    /\ Len(db.orders) = 2
    /\ db.orders[1].order_side = "buy"
    /\ db.orders[1].symbol # last.symbol
    /\ Len(db.positions) = 2
    /\ db.positions[2].is_short
    /\ ~db.positions[1].is_short
    /\ db.positions[2].quantity = 2

\* C13: every place_order that succeeds appends exactly one order to the log,
\* with status 'filled', a fill timestamp, and the requested symbol, side,
\* quantity and price; the orders already in the log stay as they were; and a
\* call that is rejected appends nothing.
C13_OrderLogAppendOnly ==
    [][IF last'.op = "place_order" /\ last'.outcome = "filled"
       THEN /\ Len(db'.orders) = Len(db.orders) + 1
            /\ SubSeq(db'.orders, 1, Len(db.orders)) = db.orders
            /\ LET order == db'.orders[Len(db'.orders)]
               IN  /\ order.status = "filled"
                   /\ order.filled_at
                   /\ order.symbol = last'.symbol
                   /\ order.order_side = last'.order_side
                   /\ order.quantity = last'.quantity
                   /\ order.price = last'.price
       ELSE db'.orders = db.orders]_vars

\* The log holds a filled SELL, and the SHORT placed after it was rejected for
\* lack of funds
C13_Witness ==
    /\ last.op = "place_order"
    /\ last.outcome = InsufficientFunds
    /\ Len(db.orders) = 1
    /\ db.orders[1].status = "filled"
    /\ db.orders[1].order_side = "sell"
    /\ last.order_side = "short"

----------------------------------------------------------------------------
(* The signal engine: generate_signals over an indicator table *)

\* A cell of the table is NaN or a number; every comparison with NaN is false
NaN == <<>>
Num(v) == <<v>>
Gt(a, b) == a # NaN /\ b # NaN /\ a[1] > b[1]
Lt(a, b) == a # NaN /\ b # NaN /\ a[1] < b[1]
Ge(a, b) == a # NaN /\ b # NaN /\ a[1] >= b[1]
Le(a, b) == a # NaN /\ b # NaN /\ a[1] <= b[1]

\* One row of the table. ta_OBV_EMA is what ta's EMAIndicator yields on the OBV
\* column up to this row; Signal_Strength counts halves (0.5 is 1, 1 is 2).
Bar(close, macd, rsi, sma, bb, obv) ==
    [Close |-> close, MACD |-> macd[1], MACD_Signal |-> macd[2], RSI |-> rsi,
     SMA_20 |-> sma[1], SMA_50 |-> sma[2], BB_Low |-> bb[1], BB_High |-> bb[2],
     OBV |-> obv[1], ta_OBV_EMA |-> obv[2], OBV_EMA |-> NaN,
     Signal |-> "", Signal_Strength |-> 0]

shift_Ahead(rows, i, column) == IF i = Len(rows) THEN NaN ELSE rows[i + 1][column]

shift_ZeroFilled(rows, i, column) == IF i = 1 THEN Num(0) ELSE rows[i - 1][column]

\* Series.shift(1): the value of the row before, NaN on the first row
shift(rows, i, column) == IF i = 1 THEN NaN ELSE rows[i - 1][column]

\* df.loc[mask, 'Signal'] = value and df.loc[mask, 'Signal_Strength'] += halves
SetSignal(rows, mask, value) ==
    [i \in DOMAIN rows |->
        IF i \in mask THEN [rows[i] EXCEPT !.Signal = value] ELSE rows[i]]
AddStrength_Clamped(rows, mask, halves) ==
    [i \in DOMAIN rows |->
        IF i \in mask
        THEN [rows[i] EXCEPT !.Signal_Strength = IF @ + halves > 6 THEN 6 ELSE @ + halves]
        ELSE rows[i]]
AddStrength(rows, mask, halves) ==
    [i \in DOMAIN rows |->
        IF i \in mask THEN [rows[i] EXCEPT !.Signal_Strength = @ + halves]
        ELSE rows[i]]

\* The masks of the rules, in the order of the source
CrossUp(rows, fast, slow) ==
    {i \in DOMAIN rows : /\ Gt(rows[i][fast], rows[i][slow])
                         /\ Le(shift(rows, i, fast), shift(rows, i, slow))}
CrossDown(rows, fast, slow) ==
    {i \in DOMAIN rows : /\ Lt(rows[i][fast], rows[i][slow])
                         /\ Ge(shift(rows, i, fast), shift(rows, i, slow))}
Below(rows, column, level) == {i \in DOMAIN rows : Lt(rows[i][column], level)}
Above(rows, column, level) == {i \in DOMAIN rows : Gt(rows[i][column], level)}
CloseAbove(rows, column) == {i \in DOMAIN rows : Gt(rows[i].Close, rows[i][column])}
CloseAtOrBelow(rows, column) == {i \in DOMAIN rows : Le(rows[i].Close, rows[i][column])}
CloseAtOrAbove(rows, column) == {i \in DOMAIN rows : Ge(rows[i].Close, rows[i][column])}

\* The masks read the indicator columns only, which no rule writes, so each
\* block's masks are taken on the rows the block starts from
MacdRules(columns, rows) ==
    IF "MACD" \in columns /\ "MACD_Signal" \in columns
    THEN SetSignal(SetSignal(rows, CrossUp(rows, "MACD", "MACD_Signal"), "BUY"),
                   CrossDown(rows, "MACD", "MACD_Signal"), "SELL")
    ELSE rows

RsiRules(columns, rows) ==
    IF "RSI" \in columns
    THEN AddStrength(
             AddStrength(
                 SetSignal(SetSignal(rows, Below(rows, "RSI", Num(30)), "BUY"),
                           Above(rows, "RSI", Num(70)), "SELL"),
                 Below(rows, "RSI", Num(30)), 2),
             Above(rows, "RSI", Num(70)), 2)
    ELSE rows

MaRules(columns, rows) ==
    IF "SMA_20" \in columns /\ "SMA_50" \in columns
    THEN AddStrength(
             AddStrength(
                 SetSignal(SetSignal(rows, CrossUp(rows, "SMA_20", "SMA_50"), "BUY"),
                           CrossDown(rows, "SMA_20", "SMA_50"), "SELL"),
                 CloseAbove(rows, "SMA_20"), 1),
             CloseAbove(rows, "SMA_50"), 1)
    ELSE rows

BollingerRules(columns, rows) ==
    IF "BB_High" \in columns /\ "BB_Low" \in columns
    THEN AddStrength(
             AddStrength(
                 SetSignal(SetSignal(rows, CloseAtOrBelow(rows, "BB_Low"), "BUY"),
                           CloseAtOrAbove(rows, "BB_High"), "SELL"),
                 CloseAtOrBelow(rows, "BB_Low"), 2),
             CloseAtOrAbove(rows, "BB_High"), 2)
    ELSE rows

\* df['OBV_EMA'] = EMAIndicator(close=df['OBV'], window=20).ema_indicator()
EMAIndicator(rows) ==
    [i \in DOMAIN rows |-> [rows[i] EXCEPT !.OBV_EMA = rows[i].ta_OBV_EMA]]

VolumeRules(columns, rows) ==
    IF "OBV" \in columns
    THEN LET smoothed == EMAIndicator(rows)
             up == AddStrength(smoothed, CrossUp(smoothed, "OBV", "OBV_EMA"), 1)
         IN  AddStrength(up, CrossDown(up, "OBV", "OBV_EMA"), -1)
    ELSE rows

generate_signals_RsiLast(d) ==
    LET held == [i \in DOMAIN d.rows |->
                    [d.rows[i] EXCEPT !.Signal = "HOLD", !.Signal_Strength = 0]]
        rows == VolumeRules(d.columns,
                    RsiRules(d.columns,
                        BollingerRules(d.columns,
                            MaRules(d.columns,
                                MacdRules(d.columns, held)))))
    IN  [columns |-> d.columns \union {"Signal", "Signal_Strength"}
                       \union (IF "OBV" \in d.columns THEN {"OBV_EMA"} ELSE {}),
         rows |-> rows]

\* generate_signals(df): the table it leaves in df and returns
generate_signals(d) ==
    LET held == [i \in DOMAIN d.rows |->
                    [d.rows[i] EXCEPT !.Signal = "HOLD", !.Signal_Strength = 0]]
        rows == VolumeRules(d.columns,
                    BollingerRules(d.columns,
                        MaRules(d.columns,
                            RsiRules(d.columns,
                                MacdRules(d.columns, held)))))
    IN  [columns |-> d.columns \union {"Signal", "Signal_Strength"}
                       \union (IF "OBV" \in d.columns THEN {"OBV_EMA"} ELSE {}),
         rows |-> rows]

\* The tables the page hands to generate_signals: the columns of the selected
\* indicators, and up to MaxRows rows whose cells sit on both sides of every
\* comparison the rules make (Close is 2 throughout)
MaxRows == 2
Closes == {Num(2)}
MacdCells == {<<Num(0), Num(1)>>, <<Num(2), Num(1)>>}
RsiCells == {Num(25), Num(50), Num(75)}
SmaCells == {<<Num(3), Num(4)>>, <<Num(1), Num(0)>>, <<Num(1), NaN>>}
BollingerCells == {<<Num(1), Num(3)>>, <<Num(2), Num(3)>>, <<Num(2), Num(2)>>}
ObvCells == {<<Num(1), Num(2)>>, <<Num(2), Num(1)>>}
Absent == {<<NaN, NaN>>}

DefaultColumns ==
    {"Close", "SMA_20", "SMA_50", "MACD", "MACD_Signal", "RSI", "BB_High", "BB_Low"}
VolumeColumns == {"Close", "SMA_20", "SMA_50", "RSI", "BB_High", "BB_Low", "OBV"}
MomentumColumns == {"Close", "MACD", "MACD_Signal", "RSI", "OBV"}
ColumnSets ==
    {DefaultColumns, {"Close", "RSI"}, {"Close", "SMA_20", "SMA_50"}, {"Close", "OBV"}}

Bars(columns) ==
    {Bar(close, macd, rsi, sma, bb, obv) :
        close \in Closes,
        macd \in IF "MACD" \in columns THEN MacdCells ELSE Absent,
        rsi \in IF "RSI" \in columns THEN RsiCells ELSE {NaN},
        sma \in IF "SMA_20" \in columns THEN SmaCells ELSE Absent,
        bb \in IF "BB_Low" \in columns THEN BollingerCells ELSE Absent,
        obv \in IF "OBV" \in columns THEN ObvCells ELSE Absent}

InitTables(selections) ==
    /\ InitLedger({DefaultBalance})
    /\ portfolio = NoRows
    /\ signals = NoTable
    /\ \E columns \in selections, n \in 0..MaxRows :
           df \in [columns : {columns}, rows : [1..n -> Bars(columns)]]

\* df = generate_signals(df): the call changes the caller's table in place and
\* returns that same table
GenerateSignals ==
    /\ df' = generate_signals(df)
    /\ signals' = df'
    /\ UNCHANGED <<db, sess, last, initial_balance, pc, frame, portfolio>>

\* The default selection of indicators, and RSI, the averages and Volume alone
InitSignals == InitTables(ColumnSets)
NextSignals == GenerateSignals
SpecSignals == InitSignals /\ [][NextSignals]_vars

\* The selections with Volume: next to RSI, the averages and the bands, and
\* next to MACD and RSI
InitVolume == InitTables({VolumeColumns, MomentumColumns})
NextVolume == GenerateSignals
SpecVolume == InitVolume /\ [][NextVolume]_vars

----------------------------------------------------------------------------
(* The signal engine's properties *)

\* The verdicts of a table, row by row, and the table cut after its first n rows
Verdicts(d) == [i \in DOMAIN d.rows |-> <<d.rows[i].Signal, d.rows[i].Signal_Strength>>]
Prefix(d, n) == [d EXCEPT !.rows = SubSeq(d.rows, 1, n)]

\* C14: generate_signals is deterministic and prefix-stable: run again on the
\* table it was given (which it has written into) it returns the verdicts it
\* returned before, and run on the first n rows of a table it returns, for
\* those rows, the verdicts it returns on the whole table.
C14_PrefixStable ==
    LET again == Verdicts(generate_signals(df))
    IN  /\ signals # NoTable => again = Verdicts(signals)
        /\ \A n \in 0..Len(df.rows) :
               Verdicts(generate_signals(Prefix(df, n))) = SubSeq(again, 1, n)

\* generate_signals returned a table whose last row is a BUY by a bullish MACD
\* cross over the row before, which itself carries a verdict that is not HOLD
C14_Witness ==
    /\ signals # NoTable
    /\ Len(signals.rows) = 2
    /\ signals.rows[2].Signal = "BUY"
    /\ signals.rows[2].RSI = Num(50)
    /\ signals.rows[2].SMA_20 = Num(3)
    /\ signals.rows[2].BB_Low = Num(1)
    /\ signals.rows[1].Signal = "SELL"
    /\ signals.rows[1].Signal_Strength > 0

\* The overwrites of Signal in the order of the source: whether overwrite k
\* applies to row i (the columns of its rule are in the table and the row
\* satisfies its condition), and its verdict
Applies(d, i, k) ==
    CASE k = 1 -> /\ "MACD" \in d.columns /\ "MACD_Signal" \in d.columns
                  /\ Gt(d.rows[i].MACD, d.rows[i].MACD_Signal)
                  /\ Le(shift(d.rows, i, "MACD"), shift(d.rows, i, "MACD_Signal"))
      [] k = 2 -> /\ "MACD" \in d.columns /\ "MACD_Signal" \in d.columns
                  /\ Lt(d.rows[i].MACD, d.rows[i].MACD_Signal)
                  /\ Ge(shift(d.rows, i, "MACD"), shift(d.rows, i, "MACD_Signal"))
      [] k = 3 -> "RSI" \in d.columns /\ Lt(d.rows[i].RSI, Num(30))
      [] k = 4 -> "RSI" \in d.columns /\ Gt(d.rows[i].RSI, Num(70))
      [] k = 5 -> /\ "SMA_20" \in d.columns /\ "SMA_50" \in d.columns
                  /\ Gt(d.rows[i].SMA_20, d.rows[i].SMA_50)
                  /\ Le(shift(d.rows, i, "SMA_20"), shift(d.rows, i, "SMA_50"))
      [] k = 6 -> /\ "SMA_20" \in d.columns /\ "SMA_50" \in d.columns
                  /\ Lt(d.rows[i].SMA_20, d.rows[i].SMA_50)
                  /\ Ge(shift(d.rows, i, "SMA_20"), shift(d.rows, i, "SMA_50"))
      [] k = 7 -> /\ "BB_High" \in d.columns /\ "BB_Low" \in d.columns
                  /\ Le(d.rows[i].Close, d.rows[i].BB_Low)
      [] k = 8 -> /\ "BB_High" \in d.columns /\ "BB_Low" \in d.columns
                  /\ Ge(d.rows[i].Close, d.rows[i].BB_High)
OverwriteVerdicts == <<"BUY", "SELL", "BUY", "SELL", "BUY", "SELL", "BUY", "SELL">>

\* The overwrites that apply to row i, and the verdict of the last of them
Hits(d, i) == {k \in DOMAIN OverwriteVerdicts : Applies(d, i, k)}
LastWriter(d, i) ==
    LET hits == Hits(d, i)
    IN  IF hits = {} THEN "HOLD"
        ELSE OverwriteVerdicts[CHOOSE k \in hits : \A j \in hits : j <= k]

\* C15: the signal of a row is the verdict of the last rule, in the order MACD
\* cross, RSI threshold, moving-average cross, Bollinger band (within a rule
\* BUY before SELL), whose condition the row satisfies, and HOLD when it
\* satisfies none; so a row with just a bullish MACD cross and RSI > 70 is
\* SELL, a row with just a death cross and close at or below the lower band
\* is BUY, and the OBV rule, which is no overwrite, never changes the signal.
C15_LastWriterWins ==
    signals # NoTable
        => \A i \in DOMAIN signals.rows :
               /\ signals.rows[i].Signal = LastWriter(signals, i)
               /\ Hits(signals, i) = {1, 4} => signals.rows[i].Signal = "SELL"
               /\ Hits(signals, i) = {6, 7} => signals.rows[i].Signal = "BUY"

\* generate_signals returned a table with a row that has a death cross and
\* closes at the lower band, and no other rule fires on it
C15_Witness ==
    /\ signals # NoTable
    /\ \E i \in DOMAIN signals.rows :
           /\ Hits(signals, i) = {6, 7}
           /\ signals.rows[i].Signal = "BUY"
           /\ signals.rows[i].RSI = Num(50)
           /\ signals.rows[i - 1].Signal = "SELL"

\* The columns each rule block needs, and a table with some columns taken away
RuleBlocks ==
    {{"MACD", "MACD_Signal"}, {"RSI"}, {"SMA_20", "SMA_50"}, {"BB_High", "BB_Low"}}
Without(d, block) == [d EXCEPT !.columns = @ \ block]

\* C16 as stated: when an indicator that a rule block needs is absent for a
\* row (the long average not yet computed while the short one is, say), the
\* whole block is skipped for that row: the row's signal and strength are what
\* they would be without the block.
C16_BlockSkipped ==
    signals # NoTable
        => \A i \in DOMAIN signals.rows :
               \A block \in RuleBlocks :
                   (block \subseteq signals.columns
                        /\ \E column \in block : signals.rows[i][column] = NaN)
                     => Verdicts(generate_signals(Without(signals, block)))[i]
                            = Verdicts(signals)[i]

\* The additions to Signal_Strength that the claim lists, in halves, for row i
Weight(condition, halves) == IF condition THEN halves ELSE 0
ListedStrength(d, i) ==
    LET row == d.rows[i]
        rsi == "RSI" \in d.columns
        sma == "SMA_20" \in d.columns /\ "SMA_50" \in d.columns
        bb == "BB_High" \in d.columns /\ "BB_Low" \in d.columns
        obv == "OBV" \in d.columns
    IN  Weight(rsi /\ (Lt(row.RSI, Num(30)) \/ Gt(row.RSI, Num(70))), 2)
      + Weight(sma /\ Gt(row.Close, row.SMA_20), 1)
      + Weight(sma /\ Gt(row.Close, row.SMA_50), 1)
      + Weight(bb /\ Le(row.Close, row.BB_Low), 2)
      + Weight(bb /\ Ge(row.Close, row.BB_High), 2)
      + Weight(obv /\ Gt(row.OBV, row.OBV_EMA)
                   /\ Le(shift(d.rows, i, "OBV"), shift(d.rows, i, "OBV_EMA")), 1)
      - Weight(obv /\ Lt(row.OBV, row.OBV_EMA)
                   /\ Ge(shift(d.rows, i, "OBV"), shift(d.rows, i, "OBV_EMA")), 1)

\* C17: the strength of a row is the sum of exactly these additions: +1 if
\* RSI < 30 or RSI > 70, +0.5 if close > short average, +0.5 if close > long
\* average, +1 if close <= lower band, +1 if close >= upper band, +0.5 on an
\* upward OBV cross, -0.5 on a downward one; it is not clamped and the MACD rule
\* adds nothing. A row on which RSI = 25 alone fires is BUY with strength 1, and
\* a golden cross alone, close above both averages, is BUY with strength 1.
C17_StrengthIsSum ==
    signals # NoTable
        => \A i \in DOMAIN signals.rows :
               /\ signals.rows[i].Signal_Strength = ListedStrength(signals, i)
               /\ (Hits(signals, i) = {3}
                      /\ signals.rows[i].RSI = Num(25)
                      /\ ListedStrength(signals, i) = Weight(TRUE, 2))
                    => /\ signals.rows[i].Signal = "BUY"
                       /\ signals.rows[i].Signal_Strength = 2
               /\ (Hits(signals, i) = {5}
                      /\ Gt(signals.rows[i].Close, signals.rows[i].SMA_20)
                      /\ Gt(signals.rows[i].Close, signals.rows[i].SMA_50)
                      /\ ListedStrength(signals, i) = Weight(TRUE, 1) + Weight(TRUE, 1))
                    => /\ signals.rows[i].Signal = "BUY"
                       /\ signals.rows[i].Signal_Strength = 2

\* generate_signals returned a table whose second row collects every addition
\* (strength 4.5, above 3) and whose first row has RSI = 25 alone
C17_Witness ==
    /\ signals # NoTable
    /\ Len(signals.rows) = 2
    /\ signals.rows[2].Signal_Strength = 9
    /\ Hits(signals, 1) = {3}
    /\ signals.rows[1].Signal_Strength = 2
    /\ signals.rows[1].Signal = "BUY"

\* C18 as stated: generate_signals has no side effects on its input: after a
\* call the caller's table holds the rows, columns and values it held before,
\* and the verdicts are in the returned result only.
C18_InputUntouched ==
    [][signals' # signals => df' = df]_vars

----------------------------------------------------------------------------
(* The portfolio: PortfolioManager's positions and their transactions *)

MaxTransactions == 3
PortfolioSymbols == {"AAPL"}
Shares == {1, 2}
ShareChanges == {-2, -1, 0, 1, 2}
SharePrices == {1, 3}
PositionIds == 1..MaxTransactions

Position(id, symbol, shares, price) ==
    [id |-> id, symbol |-> symbol, shares |-> shares, average_price |-> RatInt(price)]
Transaction(position_id, type, shares, price) ==
    [position_id |-> position_id, type |-> type, shares |-> shares, price |-> price]

TransactionType_AlwaysBuy(shares_change) == "BUY"

\* transaction_type = "BUY" if shares_change > 0 else "SELL"
TransactionType(shares_change) == IF shares_change > 0 THEN "BUY" ELSE "SELL"

\* add_position: a new position row, then its BUY transaction
add_position(p, symbol, shares, price) ==
    [positions |-> Append(p.positions, Position(p.next_id, symbol, shares, price)),
     transactions |-> Append(p.transactions,
                             Transaction(p.next_id, "BUY", shares, price)),
     next_id |-> p.next_id + 1]

\* Index of the position with this id; 0 when there is none
PositionWithId(positions, position_id) ==
    IF \E i \in DOMAIN positions : positions[i].id = position_id
    THEN CHOOSE i \in DOMAIN positions : positions[i].id = position_id
    ELSE 0

\* A division carried out whatever the shares; [n |-> 0, d |-> 0] stands for
\* the ZeroDivisionError of a division by zero shares
AveragePrice_Unguarded(new_total, shares) ==
    IF shares = 0 THEN [n |-> 0, d |-> 0] ELSE RatDivInt(new_total, shares)

\* new_total / position.shares if position.shares > 0 else 0
AveragePrice(new_total, shares) ==
    IF shares > 0 THEN RatDivInt(new_total, shares) ELSE RatInt(0)

\* update_position: the shares are changed first, and the new total is then
\* taken on the changed shares
update_position(p, position_id, shares_change, price) ==
    LET i == PositionWithId(p.positions, position_id)
    IN  IF i = 0 THEN p
        ELSE LET position == p.positions[i]
                 shares == position.shares + shares_change
                 new_total == RatAdd(RatMulInt(position.average_price, shares),
                                     RatInt(shares_change * price))
                 average_price == AveragePrice(new_total, shares)
             IN  [p EXCEPT
                    !.positions[i].shares = shares,
                    !.positions[i].average_price = average_price,
                    !.transactions =
                        Append(@, Transaction(position.id, TransactionType(shares_change),
                                              Abs(shares_change), price))]

AddPosition ==
    \E symbol \in PortfolioSymbols, shares \in Shares, price \in SharePrices :
        /\ Len(portfolio.transactions) < MaxTransactions
        /\ portfolio' = add_position(portfolio, symbol, shares, price)
        /\ last' = Call("add_position", symbol, "", "", shares, price, NoQuote, "done")
        /\ UNCHANGED <<db, sess, initial_balance, pc, frame, df, signals>>

UpdatePosition ==
    \E position_id \in PositionIds, shares_change \in ShareChanges, price \in SharePrices :
        /\ Len(portfolio.transactions) < MaxTransactions
        /\ portfolio' = update_position(portfolio, position_id, shares_change, price)
        /\ last' = Call("update_position", "", "", "", shares_change, price, NoQuote,
                        IF PositionWithId(portfolio.positions, position_id) = 0
                        THEN "None" ELSE "done")
        /\ UNCHANGED <<db, sess, initial_balance, pc, frame, df, signals>>

InitPortfolio == InitWith({DefaultBalance})
NextPortfolio == AddPosition \/ UpdatePosition
SpecPortfolio == InitPortfolio /\ [][NextPortfolio]_vars

----------------------------------------------------------------------------
(* The portfolio's properties *)

\* C19 as stated: update_position with a positive shares_change d at price p,
\* on a position of s shares at average a, leaves shares = s + d and
\* average_price = (a x s + p x d) / (s + d).
C19_WeightedAverage ==
    [][(last'.op = "update_position" /\ last'.outcome = "done" /\ last'.quantity > 0)
          => LET d == last'.quantity
                 logged == portfolio'.transactions[Len(portfolio'.transactions)]
                 i == PositionWithId(portfolio.positions, logged.position_id)
                 s == portfolio.positions[i].shares
                 a == portfolio.positions[i].average_price
             IN  s + d > 0
                   => /\ portfolio'.positions[i].shares = s + d
                      /\ portfolio'.positions[i].average_price
                            = RatDivInt(RatAdd(RatMulInt(a, s), RatInt(last'.price * d)),
                                        s + d)]_vars

\* The shares a position holds by its transactions: bought less sold
RECURSIVE SharesByLog(_, _)
SharesByLog(transactions, position_id) ==
    IF transactions = <<>> THEN 0
    ELSE LET t == transactions[Len(transactions)]
             rest == SharesByLog(SubSeq(transactions, 1, Len(transactions) - 1),
                                 position_id)
         IN  IF t.position_id # position_id THEN rest
             ELSE IF t.type = "BUY" THEN rest + t.shares
             ELSE rest - t.shares

\* C20: add_position and each update_position on an existing position append
\* exactly one transaction (BUY for a positive change, SELL otherwise, with the
\* absolute share count and the price); no transaction is removed or changed;
\* and every position's shares are the BUY shares less the SELL shares of its
\* transactions.
C20_TransactionLog ==
    [][/\ IF last'.op \in {"add_position", "update_position"} /\ last'.outcome = "done"
          THEN /\ Len(portfolio'.transactions) = Len(portfolio.transactions) + 1
               /\ SubSeq(portfolio'.transactions, 1, Len(portfolio.transactions))
                     = portfolio.transactions
               /\ LET logged == portfolio'.transactions[Len(portfolio'.transactions)]
                  IN  /\ logged.type = IF last'.op = "add_position" \/ last'.quantity > 0
                                       THEN "BUY" ELSE "SELL"
                      /\ logged.shares = Abs(last'.quantity)
                      /\ logged.price = last'.price
                      /\ PositionWithId(portfolio'.positions, logged.position_id) # 0
          ELSE portfolio'.transactions = portfolio.transactions
       /\ \A i \in DOMAIN portfolio'.positions :
              portfolio'.positions[i].shares
                = SharesByLog(portfolio'.transactions, portfolio'.positions[i].id)]_vars

\* Two positions were opened and the first was then sold down: its shares are
\* what it bought less what it sold
C20_Witness ==
    /\ Len(portfolio.positions) = 2
    /\ Len(portfolio.transactions) = 3
    /\ portfolio.transactions[3].type = "SELL"
    /\ portfolio.transactions[3].position_id = 1
    /\ portfolio.transactions[3].shares = 1
    /\ portfolio.positions[1].shares = 1
    /\ last.op = "update_position"

----------------------------------------------------------------------------
(* The ledger's positions, fill by fill *)

\* C21 as stated: every order filled at a key that already holds a position
\* mutates that position: after a filled BUY, SELL or SHORT at the key, the
\* position's quantity has changed or the position has been removed.
C21_EveryFillMutates ==
    [][LET key == <<last'.symbol, last'.asset_type>>
       IN  (/\ last'.op = "place_order"
            /\ last'.outcome = "filled"
            /\ PositionsAt(db.positions, key) # <<>>)
              => \/ PositionsAt(db'.positions, key) = <<>>
                 \/ PositionsAt(db'.positions, key)[1].quantity
                       # PositionsAt(db.positions, key)[1].quantity]_vars

\* C22: after any sequence of place_order calls executed one at a time, the
\* account holds at most one position per (symbol, asset_type) key.
C22_OnePositionPerKey ==
    \A key \in Keys :
        /\ Len(PositionsAt(db.positions, key)) <= 1
        /\ Len(PositionsAt(sess.positions, key)) <= 1

\* Three orders were filled, two of them at one key, and each key holds its
\* one position
C22_Witness ==
    /\ Len(db.orders) = 3
    /\ Len(db.positions) = 2
    /\ \E key \in Keys :
           /\ Len(OrdersAt(db.orders, key)) = 2
           /\ Sides(OrdersAt(db.orders, key)) = {"buy"}
           /\ Len(PositionsAt(db.positions, key)) = 1

\* C23: after any sequence of place_order calls with quantity > 0, every stored
\* position has quantity > 0: a position whose quantity reaches zero or below
\* is removed by the call that depletes it and is not seen afterwards.
C23_PositionsPositive ==
    ValidOrders(db.orders)
        => /\ \A i \in 1..Len(db.positions) : db.positions[i].quantity > 0
           /\ \A i \in 1..Len(sess.positions) : sess.positions[i].quantity > 0

\* A SELL took more than the position at its key held, the position is gone,
\* and the position at the other key is still there
C23_Witness ==
    /\ Len(db.orders) = 3
    /\ db.orders[1].order_side = "buy"
    /\ db.orders[2].order_side = "buy"
    /\ db.orders[3].order_side = "sell"
    /\ db.orders[1].symbol # db.orders[2].symbol
    /\ db.orders[3].symbol = db.orders[1].symbol
    /\ db.orders[3].quantity > db.orders[1].quantity
    /\ Len(db.positions) = 1
    /\ db.positions[1].symbol = db.orders[2].symbol

----------------------------------------------------------------------------
(* The signal engine at the head of a table *)

\* Row i has a previous row that carries both values a cross compares
HasPrevious(d, i, fast, slow) ==
    /\ i > 1
    /\ d.rows[i - 1][fast] # NaN
    /\ d.rows[i - 1][slow] # NaN

\* The overwrites that can apply to row i: the thresholds, and the crosses whose
\* previous values exist
Comparable(d, i) ==
    {3, 4, 7, 8}
        \union (IF HasPrevious(d, i, "MACD", "MACD_Signal") THEN {1, 2} ELSE {})
        \union (IF HasPrevious(d, i, "SMA_20", "SMA_50") THEN {5, 6} ELSE {})
LastOf(hits) ==
    IF hits = {} THEN "HOLD"
    ELSE OverwriteVerdicts[CHOOSE k \in hits : \A j \in hits : j <= k]

\* C24: a crossover rule (MACD, moving-average or OBV cross) never fires on a
\* row that has no previous row or whose previous row lacks one of the two
\* compared values: the signal of such a row is set by the other rules alone,
\* on the first row no cross sets the signal and the OBV rule adds nothing to
\* the strength, and the call returns its table (no error).
C24_NoCrossWithoutPrevious ==
    signals # NoTable
        => \A i \in DOMAIN signals.rows :
               /\ signals.rows[i].Signal = LastOf(Hits(signals, i) \cap Comparable(signals, i))
               /\ ~HasPrevious(signals, i, "OBV", "OBV_EMA")
                    => signals.rows[i].Signal_Strength
                         = ListedStrength(Without(signals, {"OBV"}), i)
               /\ i = 1 => /\ signals.rows[i].Signal
                                  = LastOf(Hits(signals, i) \cap {3, 4, 7, 8})
                            /\ signals.rows[i].Signal_Strength
                                  = ListedStrength(Without(signals, {"OBV"}), i)

\* generate_signals returned a table whose first row has MACD above its signal
\* line and OBV above its average, and is HOLD with strength 0, while on the
\* second row the same values, after a row below, make a cross
C24_Witness ==
    /\ signals # NoTable
    /\ Len(signals.rows) = 2
    /\ Gt(signals.rows[1].MACD, signals.rows[1].MACD_Signal)
    /\ Gt(signals.rows[1].OBV, signals.rows[1].OBV_EMA)
    /\ signals.rows[1].Signal = "HOLD"
    /\ signals.rows[1].Signal_Strength = 0
    /\ Lt(signals.rows[2].MACD, signals.rows[2].MACD_Signal)
    /\ Lt(signals.rows[2].OBV, signals.rows[2].OBV_EMA)
    /\ signals.rows[2].Signal = "SELL"
    /\ signals.rows[2].Signal_Strength = -1

----------------------------------------------------------------------------
(* The ledger on a SELL of what is not held, and between its commits *)

\* C25 as stated: a SELL filled at a key where the account holds no position
\* does not create a position: after such a SELL the account's positions are
\* the ones it had.
C25_SellCreatesNothing ==
    [][(/\ last'.op = "place_order"
        /\ last'.outcome = "filled"
        /\ last'.order_side = "sell"
        /\ PositionsAt(db.positions, <<last'.symbol, last'.asset_type>>) = <<>>)
          => db'.positions = db.positions]_vars

\* C26 as stated: a fill becomes visible atomically: in no committed state,
\* between the steps of place_order, do the balance and the positions reflect
\* an order that is not yet in the order log.
C26_FillAtomic ==
    /\ \A i \in 1..Len(db.positions) :
           OrdersAt(db.orders, <<db.positions[i].symbol, db.positions[i].asset_type>>)
               # <<>>
    /\ db.orders = <<>> => db.balance = initial_balance

----------------------------------------------------------------------------
(* The strength the dashboard shows *)

\* C27 as stated: the signal strength, shown on the dashboard out of 3, lies
\* between 0 and 3 on every row of every table generate_signals returns (in
\* halves: between 0 and 6).
C27_StrengthOutOfThree ==
    signals # NoTable
        => \A i \in DOMAIN signals.rows :
               /\ signals.rows[i].Signal_Strength >= 0
               /\ signals.rows[i].Signal_Strength <= 6

----------------------------------------------------------------------------
(* The portfolio on a close *)

\* C28: closing a portfolio position never divides by zero: an update_position
\* whose change brings the shares of a position to zero or below sets its
\* average_price to 0, keeps the position's record, and appends the SELL
\* transaction of the change.
C28_CloseKeepsRecord ==
    [][(last'.op = "update_position" /\ last'.outcome = "done")
          => LET logged == portfolio'.transactions[Len(portfolio'.transactions)]
                 i == PositionWithId(portfolio.positions, logged.position_id)
                 before == portfolio.positions[i]
                 after == portfolio'.positions[i]
             IN  (before.shares > 0 /\ before.shares + last'.quantity <= 0)
                   => /\ Len(portfolio'.positions) = Len(portfolio.positions)
                      /\ after.id = before.id
                      /\ after.shares = before.shares + last'.quantity
                      /\ after.average_price = RatInt(0)
                      /\ Len(portfolio'.transactions) = Len(portfolio.transactions) + 1
                      /\ logged = Transaction(before.id, "SELL", -last'.quantity,
                                              last'.price)]_vars

\* A position of two shares was sold whole: its record is kept with no shares
\* and average_price 0, and its SELL is the last transaction
C28_Witness ==
    /\ last.op = "update_position"
    /\ last.outcome = "done"
    /\ last.quantity = -2
    /\ Len(portfolio.positions) = 1
    /\ portfolio.positions[1].shares = 0
    /\ portfolio.positions[1].average_price = RatInt(0)
    /\ Len(portfolio.transactions) = 2
    /\ portfolio.transactions[2].type = "SELL"
    /\ portfolio.transactions[2].shares = 2

====
